---- MODULE Spec2Model ----
(***************************************************************************)
(* Model of the live candlestick chart (src/src/components/               *)
(* RealTimeChart.jsx) and of the signal panel (src/src/app.js).            *)
(*                                                                         *)
(* Three specifications share the variables:                               *)
(*   SpecMA    - the pure function movingAverage on bounded inputs;        *)
(*   SpecChart - the RealTimeChart effect: the init_candles and new_candle *)
(*               socket handlers, the Plotly graph they draw into and the  *)
(*               effect's cleanup;                                         *)
(*   SpecApp   - the App effect: the signal handler, the initial fetch,    *)
(*               the selection inputs and the effect's cleanup.            *)
(***************************************************************************)
EXTENDS Integers, Sequences, FiniteSets, TLC

VARIABLES
    \* ---- movingAverage called on its own (SpecMA)
    maPc,        \* "idle" | "call" | "return"
    maArr,       \* the argument arr
    maWindow,    \* the argument window
    maOut,       \* the returned array
    \* ---- RealTimeChart (SpecChart)
    dataRef,     \* dataRef.current: [x, open, high, low, close]
    plot,        \* the data of the graph div: <<price trace, MA trace>>
    calls,       \* the Plotly calls issued by the handler that ran last
    socket,      \* the /prices socket: "open" | "closed"
    phase,       \* "Uninitialized" until the first init_candles, then "Live"
    last,        \* observation of the step taken last (see Obs)
    \* ---- App (SpecApp)
    symbol,      \* useState('AAPL')
    tf,          \* useState('1min')
    signal,      \* useState(null)
    error,       \* useState(null)
    appSocket,   \* the /ws socket of the current effect run and its closure
    pending,     \* axios requests in flight, in the order they were issued
    pushed       \* the payload the signal handler was called with last

maVars    == <<maPc, maArr, maWindow, maOut>>
chartVars == <<dataRef, plot, calls, socket, phase, last>>
appVars   == <<symbol, tf, signal, error, appSocket, pending, pushed>>
vars      == <<maVars, chartVars, appVars>>

----------------------------------------------------------------------------
(* JavaScript values.  A number is kept as an exact fraction n/d; the      *)
(* non-numbers that the code can meet are NaN, undefined and null.         *)

Num(n)    == [k |-> "num", n |-> n, d |-> 1]
NaN       == [k |-> "NaN", n |-> 0, d |-> 1]
undefined == [k |-> "undefined", n |-> 0, d |-> 1]
null      == [k |-> "null", n |-> 0, d |-> 1]
Infinity(sign) == [k |-> "Infinity", n |-> sign, d |-> 1]

IsFinite(v) == v.k = "num"

Abs(n) == IF n < 0 THEN 0 - n ELSE n
Sign(n) == IF n < 0 THEN 0 - 1 ELSE 1

RECURSIVE GCD(_, _)
GCD(a, b) == IF b = 0 THEN a ELSE GCD(b, a % b)

\* ToNumber of the operands of + - / : undefined -> NaN, null -> 0.
ToNumber(v) ==
    CASE v.k = "undefined" -> NaN
      [] v.k = "null"      -> Num(0)
      [] OTHER             -> v

\* a + b and a - b on numbers whose denominators are 1 (sums of closes).
Add(a, b) ==
    LET p == ToNumber(a)
        q == ToNumber(b)
    IN  IF IsFinite(p) /\ IsFinite(q) THEN Num(p.n + q.n) ELSE NaN

Sub(a, b) ==
    LET p == ToNumber(a)
        q == ToNumber(b)
    IN  IF IsFinite(p) /\ IsFinite(q) THEN Num(p.n - q.n) ELSE NaN

\* a / w for an integer w: the exact quotient in lowest terms; x/0 is
\* NaN for x = 0 and an infinity otherwise.
Divide(a, w) ==
    LET p == ToNumber(a)
    IN  IF ~IsFinite(p) THEN NaN
        ELSE IF w = 0 THEN (IF p.n = 0 THEN NaN ELSE Infinity(Sign(p.n)))
        ELSE LET g == GCD(Abs(p.n), Abs(w))
             IN  [k |-> "num", n |-> (Sign(w) * p.n) \div g, d |-> Abs(w) \div g]

\* arr[j] for a 0-based index j: undefined outside the array.
At(arr, j) == IF j >= 0 /\ j < Len(arr) THEN arr[j + 1] ELSE undefined

----------------------------------------------------------------------------
(* movingAverage(arr, window), RealTimeChart.jsx lines 7-16.               *)

RECURSIVE maLoop(_, _, _, _, _)
maLoop(arr, window, i, sum, out) ==
    IF i >= Len(arr) THEN out
    ELSE LET s1 == Add(sum, At(arr, i))
             s2 == IF i >= window THEN Sub(s1, At(arr, i - window)) ELSE s1
             o  == IF i >= window - 1
                   THEN [out EXCEPT ![i + 1] = Divide(s2, window)]
                   ELSE out
         IN  maLoop(arr, window, i + 1, s2, o)

\* A slip in the loop: the value leaving the window is subtracted one
\* iteration late.
RECURSIVE maLoopLate(_, _, _, _, _)
maLoopLate(arr, window, i, sum, out) ==
    IF i >= Len(arr) THEN out
    ELSE LET s1 == Add(sum, At(arr, i))
             s2 == IF i > window THEN Sub(s1, At(arr, i - window)) ELSE s1
             o  == IF i >= window - 1
                   THEN [out EXCEPT ![i + 1] = Divide(s2, window)]
                   ELSE out
         IN  maLoopLate(arr, window, i + 1, s2, o)

movingAverageLate(arr, window) ==
    maLoopLate(arr, window, 0, Num(0), [i \in 1..Len(arr) |-> null])

\* A slip: the window runs forward from each index instead of backward.
RECURSIVE addUp(_, _, _)
addUp(arr, lo, hi) ==
    IF lo > hi THEN Num(0) ELSE Add(At(arr, lo), addUp(arr, lo + 1, hi))

movingAverageLeading(arr, window) ==
    [i \in 1..Len(arr) |->
        IF i + window - 1 <= Len(arr)
        THEN Divide(addUp(arr, i - 1, i + window - 2), window)
        ELSE null]

movingAverage(arr, window) ==
    maLoop(arr, window, 0, Num(0), [i \in 1..Len(arr) |-> null])

----------------------------------------------------------------------------
(* Bounds of the model.                                                    *)

MaxLen    == 3   \* longest close sequence handed to movingAverage alone
MaxWindow == 3   \* windows tried on movingAverage alone: -MaxWindow..MaxWindow
MaxPrice  == 3   \* close prices tried on movingAverage alone: 1..MaxPrice

SeqsUpTo(S, n) == UNION {[1..m -> S] : m \in 0..n}

CloseInputs == {Num(p) : p \in 1..MaxPrice}
Windows     == (0 - MaxWindow)..MaxWindow

MaxTime     == 2   \* candle times are 1..MaxTime
MaxBars     == 3   \* new_candle appends only while the series is shorter
MaxSnapshot == 2   \* longest init_candles payload

\* The window the handlers pass to movingAverage.  The source passes the
\* literal 10 (lines 61, 77, 92); the model passes a smaller window so that
\* defined averages and a sliding window occur within MaxBars bars.
MA_WINDOW == 2

Times == 1..MaxTime

\* The open/high/low/close of the candles tried: two well-formed bars and
\* one whose open is NaN and whose close is missing.
OHLCInputs ==
    { <<Num(1), Num(2), Num(1), Num(2)>>,
      <<Num(2), Num(3), Num(1), Num(3)>>,
      <<NaN, Num(2), Num(1), undefined>> }

Candle(t, q) == [time |-> t, open |-> q[1], high |-> q[2], low |-> q[3], close |-> q[4]]

CandleInputs == {Candle(t, q) : t \in Times, q \in OHLCInputs}

\* the candles of the stored history: every field is a number
SnapshotCandles ==
    {c \in CandleInputs : c.open.k = "num" /\ c.high.k = "num" /\ c.low.k = "num" /\ c.close.k = "num"}

\* time-ascending sequences of at most n candles
RECURSIVE AscendingUpTo(_)
AscendingUpTo(n) ==
    IF n = 0 THEN {<<>>}
    ELSE LET shorter == AscendingUpTo(n - 1)
         IN  shorter \cup
             UNION { {Append(s, c) : c \in {b \in SnapshotCandles :
                                               Len(s) = 0 \/ s[Len(s)].time < b.time}} :
                     s \in {r \in shorter : Len(r) = n - 1} }

\* init_candles payloads: time-ascending sequences of well-formed candles
SnapshotInputs == AscendingUpTo(MaxSnapshot)

----------------------------------------------------------------------------
(* Idle values of the components a specification does not run.             *)

MAIdle ==
    /\ maPc = "idle"
    /\ maArr = <<>>
    /\ maWindow = 0
    /\ maOut = <<>>

ChartIdle ==
    /\ dataRef = [x |-> <<>>, open |-> <<>>, high |-> <<>>, low |-> <<>>, close |-> <<>>]
    /\ plot = <<>>
    /\ calls = <<>>
    /\ socket = "closed"
    /\ phase = "Uninitialized"
    /\ last = [ev |-> "none", live |-> FALSE, n |-> 0, same |-> FALSE]

AppIdle ==
    /\ symbol = <<>>
    /\ tf = ""
    /\ signal = null
    /\ error = null
    /\ appSocket = [state |-> "disconnected", symbol |-> <<>>, tf |-> ""]
    /\ pending = <<>>
    /\ pushed = null

----------------------------------------------------------------------------
(* SpecMA: movingAverage called once on an arbitrary bounded input.        *)

MAInit ==
    /\ maPc = "call"
    /\ maArr \in SeqsUpTo(CloseInputs, MaxLen)
    /\ maWindow \in Windows
    /\ maOut = <<>>
    /\ ChartIdle
    /\ AppIdle

MACall ==
    /\ maPc = "call"
    /\ maOut' = movingAverage(maArr, maWindow)
    /\ maPc' = "return"
    /\ UNCHANGED <<maArr, maWindow, chartVars, appVars>>

MANext == MACall

SpecMA == MAInit /\ [][MANext]_vars

----------------------------------------------------------------------------
(* The graph div.  Plotly keeps the data of the two traces; the calls the  *)
(* handlers make replace it (react), overwrite attributes of one trace     *)
(* (update with a trace index) or append to attributes of one trace        *)
(* (extendTraces).                                                         *)

EmptySeries == [x |-> <<>>, open |-> <<>>, high |-> <<>>, low |-> <<>>, close |-> <<>>]

\* Plotly.newPlot(divRef.current, [...]), lines 23-50
newPlot == << EmptySeries, [x |-> <<>>, y |-> <<>>] >>

ReactCall(data)          == [fn |-> "react", trace |-> 0 - 1, data |-> data]
UpdateCall(upd, idx)     == [fn |-> "update", trace |-> idx, data |-> upd]
ExtendCall(upd, idx)     == [fn |-> "extendTraces", trace |-> idx, data |-> upd]

\* the effect of one call on the data of the graph
PlotlyApply(p, call) ==
    CASE call.fn = "react" -> call.data
      [] call.fn = "update" ->
            [p EXCEPT ![call.trace + 1] =
                [f \in DOMAIN @ |-> IF f \in DOMAIN call.data THEN call.data[f] ELSE @[f]]]
      [] call.fn = "extendTraces" ->
            [p EXCEPT ![call.trace + 1] =
                [f \in DOMAIN @ |-> IF f \in DOMAIN call.data THEN @[f] \o call.data[f] ELSE @[f]]]

RECURSIVE PlotlyApplyAll(_, _)
PlotlyApplyAll(p, cs) ==
    IF cs = <<>> THEN p ELSE PlotlyApplyAll(PlotlyApply(p, Head(cs)), Tail(cs))

----------------------------------------------------------------------------
(* The socket handlers of RealTimeChart.                                   *)

\* A slip: the payload is added to the stored bars instead of replacing them.
replaceAllKeep(candles) ==
    [x     |-> dataRef.x \o [i \in 1..Len(candles) |-> candles[i].time],
     open  |-> dataRef.open \o [i \in 1..Len(candles) |-> candles[i].open],
     high  |-> dataRef.high \o [i \in 1..Len(candles) |-> candles[i].high],
     low   |-> dataRef.low \o [i \in 1..Len(candles) |-> candles[i].low],
     close |-> dataRef.close \o [i \in 1..Len(candles) |-> candles[i].close]]

\* lines 55-60: the five columns of the payload become dataRef.current
replaceAll(candles) ==
    [x     |-> [i \in 1..Len(candles) |-> candles[i].time],
     open  |-> [i \in 1..Len(candles) |-> candles[i].open],
     high  |-> [i \in 1..Len(candles) |-> candles[i].high],
     low   |-> [i \in 1..Len(candles) |-> candles[i].low],
     close |-> [i \in 1..Len(candles) |-> candles[i].close]]

\* lines 61-65: the call made for a snapshot
reactCalls(d) ==
    << ReactCall(<< [x |-> d.x, open |-> d.open, high |-> d.high, low |-> d.low, close |-> d.close],
                    [x |-> d.x, y |-> movingAverage(d.close, MA_WINDOW)] >>) >>

\* A slip: a bar that is not newer than the last one counts as the last one.
isLastCandleOrOlder(d, c) ==
    LET lastIdx == Len(d.x) - 1
    IN  lastIdx >= 0 /\ c.time <= d.x[lastIdx + 1]

\* line 71: lastIdx >= 0 && c.time === d.x[lastIdx]
isLastCandle(d, c) ==
    LET lastIdx == Len(d.x) - 1
    IN  lastIdx >= 0 /\ c.time = d.x[lastIdx + 1]

\* A slip: the first bar is overwritten instead of the last one.
updateFirst(d, c) ==
    [d EXCEPT !.open[1] = c.open, !.high[1] = c.high,
              !.low[1] = c.low, !.close[1] = c.close]

\* lines 73-76: overwrite the last bar
updateLast(d, c) ==
    LET n == Len(d.x)
    IN  [d EXCEPT !.open[n] = c.open, !.high[n] = c.high,
                  !.low[n] = c.low, !.close[n] = c.close]

\* A slip: the moving average is not recomputed after an update; the one
\* drawn before is sent again.
updateCallsStaleMA(d) ==
    << UpdateCall([open |-> d.open, high |-> d.high, low |-> d.low, close |-> d.close], 0),
       UpdateCall([x |-> d.x, y |-> plot[2].y], 1) >>

\* A slip: the close array is left out of the update of the price trace.
updateCallsNoClose(d) ==
    << UpdateCall([open |-> d.open, high |-> d.high, low |-> d.low], 0),
       UpdateCall([x |-> d.x, y |-> movingAverage(d.close, MA_WINDOW)], 1) >>

\* lines 77-84: the calls made after updateLast, d being the updated series
updateCalls(d) ==
    << UpdateCall([open |-> d.open, high |-> d.high, low |-> d.low, close |-> d.close], 0),
       UpdateCall([x |-> d.x, y |-> movingAverage(d.close, MA_WINDOW)], 1) >>

\* A slip: the close is not pushed.
pushCandleNoClose(d, c) ==
    [x     |-> Append(d.x, c.time),
     open  |-> Append(d.open, c.open),
     high  |-> Append(d.high, c.high),
     low   |-> Append(d.low, c.low),
     close |-> d.close]

\* A slip: a bar is not stored while the series is empty.
pushCandleUnlessEmpty(d, c) ==
    IF Len(d.x) = 0 THEN d
    ELSE [x     |-> Append(d.x, c.time),
          open  |-> Append(d.open, c.open),
          high  |-> Append(d.high, c.high),
          low   |-> Append(d.low, c.low),
          close |-> Append(d.close, c.close)]

\* lines 87-91: push the bar onto the five arrays
pushCandle(d, c) ==
    [x     |-> Append(d.x, c.time),
     open  |-> Append(d.open, c.open),
     high  |-> Append(d.high, c.high),
     low   |-> Append(d.low, c.low),
     close |-> Append(d.close, c.close)]

\* A slip: an appended bar is drawn the way an overwritten bar is.
extendCallsAsUpdate(d, c) ==
    << UpdateCall([open |-> d.open, high |-> d.high, low |-> d.low, close |-> d.close], 0),
       UpdateCall([x |-> d.x, y |-> movingAverage(d.close, MA_WINDOW)], 1) >>

\* lines 92-98: the calls made after pushCandle, d being the extended series
extendCalls(d, c) ==
    << ExtendCall([x |-> <<c.time>>, open |-> <<c.open>>, high |-> <<c.high>>,
                   low |-> <<c.low>>, close |-> <<c.close>>], 0),
       UpdateCall([x |-> d.x, y |-> movingAverage(d.close, MA_WINDOW)], 1) >>

\* What the step taken last was: the event handled, whether a snapshot had
\* been handled before it, how many bars were stored before it, and whether
\* it repeats the event handled right before it.
Obs(ev, same) ==
    [ev |-> ev, live |-> phase = "Live", n |-> Len(dataRef.x), same |-> same]

\* socket.on('init_candles', ...), lines 54-66
init_candles(candles) ==
    /\ socket = "open"
    /\ LET d == replaceAll(candles)
       IN  /\ dataRef' = d
           /\ calls' = reactCalls(d)
           /\ plot' = PlotlyApplyAll(plot, reactCalls(d))
           /\ last' = Obs("init_candles", last.ev = "init_candles" /\ calls = reactCalls(d))
    /\ phase' = "Live"
    /\ UNCHANGED <<socket, maVars, appVars>>

\* socket.on('new_candle', ...), lines 68-100
new_candle(c) ==
    /\ socket = "open"
    /\ IF isLastCandle(dataRef, c)
       THEN LET d == updateLast(dataRef, c)
            IN  /\ dataRef' = d
                /\ calls' = updateCalls(d)
                /\ plot' = PlotlyApplyAll(plot, updateCalls(d))
                /\ last' = Obs("new_candle", last.ev = "new_candle" /\ calls = updateCalls(d))
       ELSE /\ Len(dataRef.x) < MaxBars
            /\ LET d == pushCandle(dataRef, c)
               IN  /\ dataRef' = d
                   /\ calls' = extendCalls(d, c)
                   /\ plot' = PlotlyApplyAll(plot, extendCalls(d, c))
                   /\ last' = Obs("new_candle", FALSE)
    /\ UNCHANGED <<socket, phase, maVars, appVars>>

\* A slip: the cleanup leaves the socket open.
cleanupNoClose ==
    /\ last' = Obs("cleanup", last.ev = "cleanup")
    /\ UNCHANGED <<dataRef, plot, calls, socket, phase, maVars, appVars>>

\* return () => socket.close(), line 102
cleanup ==
    /\ socket' = "closed"
    /\ last' = Obs("cleanup", last.ev = "cleanup")
    /\ UNCHANGED <<dataRef, plot, calls, phase, maVars, appVars>>

\* the state once the effect has run: the empty plot and the open socket
ChartInit ==
    /\ dataRef = EmptySeries
    /\ plot = newPlot
    /\ calls = <<>>
    /\ socket = "open"
    /\ phase = "Uninitialized"
    /\ last = [ev |-> "none", live |-> FALSE, n |-> 0, same |-> FALSE]
    /\ MAIdle
    /\ AppIdle

ChartNext ==
    \/ \E candles \in SnapshotInputs : init_candles(candles)
    \/ \E c \in CandleInputs : new_candle(c)
    \/ cleanup

SpecChart == ChartInit /\ [][ChartNext]_vars

----------------------------------------------------------------------------
(* App, src/src/app.js.  A string is a sequence of characters, so that     *)
(* toUpperCase is computed character by character.                         *)

MaxPending == 1   \* the selection changes only while fewer requests are in flight

\* line 9
TIMEFRAMES == <<"4hour", "2hour", "1hour", "30min", "15min", "5min", "3min", "1min">>

\* the timeframes selected and pushed
TfInputs == {TIMEFRAMES[6], TIMEFRAMES[8]}

AAPL == <<"A", "A", "P", "L">>
MSFT == <<"M", "S", "F", "T">>

\* what is typed into the input or carried by a push
SymbolInputs == { AAPL, <<"a", "a", "p", "l">>, MSFT }

UpperChar(ch) ==
    CASE ch = "a" -> "A" [] ch = "p" -> "P" [] ch = "l" -> "L"
      [] OTHER -> ch

\* String.prototype.toUpperCase
toUpperCase(str) == [i \in DOMAIN str |-> UpperChar(str[i])]

Trends == {"up", "down"}

\* pushed payloads: a signal record, with or without the symbol field
SignalPayloads ==
    {[symbol |-> sy, timeframe |-> t, trend |-> tr] :
        sy \in SymbolInputs, t \in TfInputs, tr \in Trends}
    \cup {[timeframe |-> t, trend |-> tr] : t \in TfInputs, tr \in Trends}

\* A slip: the symbols are compared as they are.
acceptExactCase(payload, sym, timeframe) ==
    /\ "symbol" \in DOMAIN payload
    /\ payload.symbol = sym
    /\ payload.timeframe = timeframe

\* line 21: payload.symbol?.toUpperCase() === symbol.toUpperCase()
\*          && payload.timeframe === tf
accept(payload, sym, timeframe) ==
    /\ "symbol" \in DOMAIN payload
    /\ toUpperCase(payload.symbol) = toUpperCase(sym)
    /\ payload.timeframe = timeframe

\* lines 18-30: one run of the effect; the handler closes over sym and
\* timeframe, and the initial fetch is issued for them
runEffect(sym, timeframe) ==
    /\ appSocket' = [state |-> "connected", symbol |-> sym, tf |-> timeframe]
    /\ pending' = Append(pending, [symbol |-> sym, tf |-> timeframe])

\* socket.on('signal', ...), lines 19-24
on_signal(payload) ==
    /\ appSocket.state = "connected"
    /\ signal' = IF accept(payload, appSocket.symbol, appSocket.tf) THEN payload ELSE signal
    /\ pushed' = payload
    /\ UNCHANGED <<symbol, tf, error, appSocket, pending, maVars, chartVars>>

\* onChange of the input, line 56: setSymbol, then the cleanup of the
\* effect (socket.disconnect) and its next run when the symbol changed
onChangeSymbol(value) ==
    /\ appSocket.state = "connected"
    /\ Len(pending) < MaxPending
    /\ symbol' = toUpperCase(value)
    /\ IF symbol' # symbol
       THEN runEffect(symbol', tf)
       ELSE UNCHANGED <<appSocket, pending>>
    /\ UNCHANGED <<tf, signal, error, pushed, maVars, chartVars>>

\* onChange of the select, line 60
onChangeTf(value) ==
    /\ appSocket.state = "connected"
    /\ Len(pending) < MaxPending
    /\ tf' = value
    /\ IF tf' # tf
       THEN runEffect(symbol, tf')
       ELSE UNCHANGED <<appSocket, pending>>
    /\ UNCHANGED <<symbol, signal, error, pushed, maVars, chartVars>>

RemoveAt(q, i) == [j \in 1..(Len(q) - 1) |-> IF j < i THEN q[j] ELSE q[j + 1]]

\* .then(res => setSignal(res.data)), line 28: the answer to the i-th
\* request in flight, a signal for the symbol and timeframe requested
fetch_then(i, trend) ==
    /\ i \in 1..Len(pending)
    /\ signal' = [symbol |-> pending[i].symbol, timeframe |-> pending[i].tf, trend |-> trend]
    /\ pending' = RemoveAt(pending, i)
    /\ UNCHANGED <<symbol, tf, error, appSocket, pushed, maVars, chartVars>>

\* .catch(err => setError(...)), line 29
fetch_catch(i) ==
    /\ i \in 1..Len(pending)
    /\ error' = [message |-> "Network Error"]
    /\ pending' = RemoveAt(pending, i)
    /\ UNCHANGED <<symbol, tf, signal, appSocket, pushed, maVars, chartVars>>

\* return () => socket.disconnect(), line 30, when App unmounts
app_cleanup ==
    /\ appSocket.state = "connected"
    /\ appSocket' = [appSocket EXCEPT !.state = "disconnected"]
    /\ UNCHANGED <<symbol, tf, signal, error, pending, pushed, maVars, chartVars>>

\* the state once App has rendered and its effect has run, lines 12-31
AppInit ==
    /\ symbol = AAPL
    /\ tf = "1min"
    /\ signal = null
    /\ error = null
    /\ appSocket = [state |-> "connected", symbol |-> AAPL, tf |-> "1min"]
    /\ pending = << [symbol |-> AAPL, tf |-> "1min"] >>
    /\ pushed = null
    /\ MAIdle
    /\ ChartIdle

AppNext ==
    \/ \E payload \in SignalPayloads : on_signal(payload)
    \/ \E value \in SymbolInputs : onChangeSymbol(value)
    \/ \E value \in TfInputs : onChangeTf(value)
    \/ \E i \in 1..MaxPending, trend \in Trends : fetch_then(i, trend)
    \/ \E i \in 1..MaxPending : fetch_catch(i)
    \/ app_cleanup

SpecApp == AppInit /\ [][AppNext]_vars

----------------------------------------------------------------------------
(* Properties of the signal handler.                                       *)

\* C8: a pushed signal becomes the displayed signal exactly when its symbol
\* is the selected symbol up to case and its timeframe is the selected
\* timeframe; any other push, one without a symbol included, leaves the
\* displayed signal and the error as they were.
C8_PushAcceptedIffFresh ==
    [][\A payload \in SignalPayloads : on_signal(payload) =>
          /\ IF /\ "symbol" \in DOMAIN payload
                /\ toUpperCase(payload.symbol) = toUpperCase(symbol)
                /\ payload.timeframe = tf
             THEN signal' = payload
             ELSE signal' = signal
          /\ error' = error]_vars

\* a push whose symbol differs from the selection only in case is displayed
C8_Witness ==
    /\ pushed # null
    /\ signal = pushed
    /\ signal.symbol # symbol
    /\ toUpperCase(signal.symbol) = symbol
    /\ signal.timeframe = tf
    /\ appSocket.state = "connected"

----------------------------------------------------------------------------
(* Properties of the chart handlers.                                       *)

\* the stored series holds exactly the bars of s, in order
HoldsVerbatim(d, s) ==
    /\ Len(d.x) = Len(s) /\ Len(d.open) = Len(s) /\ Len(d.high) = Len(s)
    /\ Len(d.low) = Len(s) /\ Len(d.close) = Len(s)
    /\ \A i \in 1..Len(s) :
          /\ d.x[i] = s[i].time
          /\ d.open[i] = s[i].open
          /\ d.high[i] = s[i].high
          /\ d.low[i] = s[i].low
          /\ d.close[i] = s[i].close

\* the bar stored at 1-based index i is c
BarIs(d, i, c) ==
    /\ d.x[i] = c.time
    /\ d.open[i] = c.open
    /\ d.high[i] = c.high
    /\ d.low[i] = c.low
    /\ d.close[i] = c.close

WellFormed(c) ==
    IsFinite(c.open) /\ IsFinite(c.high) /\ IsFinite(c.low) /\ IsFinite(c.close)

Handled == last.ev \in {"init_candles", "new_candle"}

\* C1: in every reachable state the sequences x, open, high, low and close
\* of the stored series have the same length.
C1_ParallelLengths ==
    /\ Len(dataRef.open) = Len(dataRef.x)
    /\ Len(dataRef.high) = Len(dataRef.x)
    /\ Len(dataRef.low) = Len(dataRef.x)
    /\ Len(dataRef.close) = Len(dataRef.x)

\* a bar was appended to a series that a snapshot and then bar events built
C1_Witness ==
    /\ last.ev = "new_candle"
    /\ last.live
    /\ last.n = 2
    /\ Len(dataRef.x) = 3
    /\ calls[1].fn = "extendTraces"

\* C2: a bar event whose time is the time of the last stored bar overwrites
\* the open/high/low/close of that bar and keeps the length; any other bar
\* event (empty series, or a different time, a smaller one included) makes
\* the bar the new last bar and the length grows by exactly 1.
C2_MutateOrAppend ==
    [][\A c \in CandleInputs : new_candle(c) =>
          LET n == Len(dataRef.x)
          IN  IF n > 0 /\ c.time = dataRef.x[n]
              THEN /\ Len(dataRef'.x) = n
                   /\ BarIs(dataRef', n, c)
              ELSE /\ Len(dataRef'.x) = n + 1
                   /\ BarIs(dataRef', n + 1, c)]_vars

\* a bar older than the last stored bar was appended
C2_Witness ==
    /\ last.ev = "new_candle"
    /\ last.n = 2
    /\ Len(dataRef.x) = 3
    /\ dataRef.x[3] < dataRef.x[2]
    /\ calls[1].fn = "extendTraces"

\* the y of the moving-average trace in the calls of the last handler
EmittedMA ==
    LET call == calls[Len(calls)]
    IN  IF call.fn = "react" THEN call.data[2].y ELSE call.data.y

\* C4: after every handled event the moving-average trace of the graph is
\* movingAverage computed from scratch over the stored closes, and is as
\* long as the close sequence.
C4_IncrementalEqualsFull ==
    Handled =>
        /\ plot[2].y = movingAverage(dataRef.close, MA_WINDOW)
        /\ Len(plot[2].y) = Len(dataRef.close)
        /\ EmittedMA = plot[2].y

\* the last bar of a live series was overwritten and its average is a number
C4_Witness ==
    /\ last.ev = "new_candle"
    /\ last.live
    /\ calls[1].fn = "update"
    /\ Len(dataRef.close) = 3
    /\ plot[2].y[3].k = "num"
    /\ ~last.same

\* C5: a bar event with a missing or non-finite open/high/low/close changes
\* neither the stored series nor the graph, and makes no Plotly call.
C5_MalformedDropped ==
    [][\A c \in CandleInputs : (~WellFormed(c) /\ new_candle(c)) =>
          UNCHANGED <<dataRef, plot, calls>>]_vars

\* C6: whatever was stored before it, a snapshot leaves exactly its own bars
\* in the series, the full moving average over them in the graph, and one
\* react call carrying both: the state a first snapshot would leave.
C6_SnapshotReplacesAll ==
    [][\A s \in SnapshotInputs : init_candles(s) =>
          /\ HoldsVerbatim(dataRef', s)
          /\ plot'[1] = dataRef'
          /\ plot'[2] = [x |-> dataRef'.x, y |-> movingAverage(dataRef'.close, MA_WINDOW)]
          /\ calls' = << ReactCall(plot') >>
          /\ phase' = "Live"]_vars

\* a snapshot arrived in the Live state and is shorter than the series it
\* replaced
C6_Witness ==
    /\ last.ev = "init_candles"
    /\ last.live
    /\ last.n = 3
    /\ Len(dataRef.x) = 1
    /\ plot[1] = dataRef

\* C7: a snapshot handled right after the same snapshot changes neither the
\* stored series nor the moving average nor the call made.
C7_SnapshotIdempotent ==
    [][\A s \in SnapshotInputs :
          (last.ev = "init_candles" /\ HoldsVerbatim(dataRef, s) /\ init_candles(s)) =>
              UNCHANGED <<dataRef, plot, calls>>]_vars

\* the same two-bar snapshot was handled twice in a row
C7_Witness ==
    /\ last.ev = "init_candles"
    /\ last.same
    /\ Len(dataRef.x) = 2
    /\ plot[2].y[2].k = "num"

\* C9: once the cleanup has run, the series, the graph and the calls made
\* never change again and the socket stays closed, whichever handler or
\* cleanup is tried next.
C9_NothingAfterTeardown ==
    [][last.ev = "cleanup" => UNCHANGED <<dataRef, plot, calls, socket>>]_vars

\* the cleanup ran twice on a series that held bars
C9_Witness ==
    /\ last.ev = "cleanup"
    /\ last.same
    /\ socket = "closed"
    /\ Len(dataRef.x) = 2

----------------------------------------------------------------------------
(* Properties of movingAverage.                                            *)

RECURSIVE SumRange(_, _, _)
\* arr[lo] + ... + arr[hi] (0-based, lo..hi inside the array), as an integer
SumRange(arr, lo, hi) ==
    IF lo > hi THEN 0 ELSE arr[lo + 1].n + SumRange(arr, lo + 1, hi)

\* v is the number s / w
IsQuotient(v, s, w) == v.k = "num" /\ v.d > 0 /\ v.n * w = s * v.d

\* C3: for a positive window W, movingAverage(C, W) has the length of C,
\* is null at every index below W-1 and is sum(C[i-W+1..i]) / W at every
\* index from W-1 on; a C shorter than W gives an all-null result.
C3_MovingAverageCorrect ==
    (maPc = "return" /\ maWindow >= 1) =>
        /\ Len(maOut) = Len(maArr)
        /\ \A i \in 0..(Len(maArr) - 1) :
              /\ i < maWindow - 1 => maOut[i + 1] = null
              /\ i >= maWindow - 1 =>
                    IsQuotient(maOut[i + 1], SumRange(maArr, i - maWindow + 1, i), maWindow)
        /\ Len(maArr) < maWindow => \A i \in 1..Len(maOut) : maOut[i] = null

\* a call whose window slides: a value has left the window, and the
\* closes differ
C3_Witness ==
    /\ maPc = "return"
    /\ maWindow = 2
    /\ Len(maArr) = 3
    /\ maArr[1] # maArr[3]
    /\ maOut[1] = null
    /\ maOut[3].k = "num"

\* C10: movingAverage never returns a series for a window <= 0.
C10_NonPositiveWindowRejected ==
    ~(maPc = "return" /\ maWindow <= 0)

----------------------------------------------------------------------------
(* Properties of the stored times.                                         *)

\* C11: once a snapshot has been handled, no two stored bars have the same
\* time.
C11_TimesUnique ==
    phase = "Live" =>
    \A i, j \in 1..Len(dataRef.x) : i # j => dataRef.x[i] # dataRef.x[j]

\* C12: once a snapshot has been handled, the stored times never decrease
\* from one bar to the next.
C12_TimesNonDecreasing ==
    phase = "Live" =>
    \A i \in 1..(Len(dataRef.x) - 1) : dataRef.x[i] <= dataRef.x[i + 1]

----------------------------------------------------------------------------
(* SpecScenario: the chart handlers fed with the bars of the worked        *)
(* example, in any order.                                                  *)

Bar1     == Candle(1, <<Num(10), Num(11), Num(9), Num(10)>>)
Bar2     == Candle(2, <<Num(10), Num(12), Num(10), Num(11)>>)
Bar2Tick == Candle(2, <<Num(10), Num(12), Num(10), Num(12)>>)
Bar3     == Candle(3, <<Num(12), Num(13), Num(11), Num(13)>>)

ScenarioCandles == {Bar1, Bar2, Bar2Tick, Bar3}

ScenarioSnapshots ==
    {s \in SeqsUpTo(ScenarioCandles, MaxSnapshot) :
        \A i \in 1..(Len(s) - 1) : s[i].time < s[i + 1].time}

ScenarioNext ==
    \/ \E candles \in ScenarioSnapshots : init_candles(candles)
    \/ \E c \in ScenarioCandles : new_candle(c)

SpecScenario == ChartInit /\ [][ScenarioNext]_vars

Half(n) == [k |-> "num", n |-> n, d |-> 2]

\* C13: with window 2, the snapshot of Bar1 and Bar2 gives the moving
\* average [null, 10.5]; the bar event Bar2Tick then leaves two bars with
\* closes [10, 12] and the moving average [null, 11]; the bar event Bar3
\* then gives three bars and the moving average [null, 11, 12.5].
C13_WorkedExample ==
    [][/\ init_candles(<<Bar1, Bar2>>) =>
            plot'[2].y = <<null, Half(21)>>
       /\ (HoldsVerbatim(dataRef, <<Bar1, Bar2>>) /\ new_candle(Bar2Tick)) =>
            /\ dataRef'.close = <<Num(10), Num(12)>>
            /\ Len(dataRef'.x) = 2
            /\ plot'[2].y = <<null, Num(11)>>
       /\ (HoldsVerbatim(dataRef, <<Bar1, Bar2Tick>>) /\ new_candle(Bar3)) =>
            /\ Len(dataRef'.x) = 3
            /\ plot'[2].y = <<null, Num(11), Half(25)>>]_vars

\* the three bars of the example are stored and drawn
C13_Witness ==
    /\ MA_WINDOW = 2
    /\ last.ev = "new_candle"
    /\ last.live
    /\ last.n = 2
    /\ dataRef.x = <<1, 2, 3>>
    /\ dataRef.close = <<Num(10), Num(12), Num(13)>>
    /\ plot[2].y = <<null, Num(11), Half(25)>>

----------------------------------------------------------------------------
(* Properties of the render instructions.  The Plotly calls of one handler *)
(* run are one render instruction: a react call is a full replace, an      *)
(* update of the price trace followed by an update of the moving-average   *)
(* trace is an incremental update, and an extendTraces of the price trace  *)
(* followed by an update of the moving-average trace is an incremental     *)
(* append.                                                                 *)

InstructionKind(cs) ==
    CASE Len(cs) = 1 /\ cs[1].fn = "react" -> "full-replace"
      [] /\ Len(cs) = 2
         /\ cs[1].fn = "update" /\ cs[1].trace = 0
         /\ cs[2].fn = "update" /\ cs[2].trace = 1 -> "incremental-update"
      [] /\ Len(cs) = 2
         /\ cs[1].fn = "extendTraces" /\ cs[1].trace = 0
         /\ cs[2].fn = "update" /\ cs[2].trace = 1 -> "incremental-append"
      [] OTHER -> "none"

\* the step left the series, the moving average sent and the graph in the
\* state the event asks for: nothing of the event is left to do
EffectsComplete ==
    /\ plot' = PlotlyApplyAll(plot, calls')
    /\ EmittedMA' = movingAverage(dataRef'.close, MA_WINDOW)
    /\ Len(EmittedMA') = Len(dataRef'.x)

\* C14: every handled event makes, in the one step that handles it, the
\* render instruction of its kind (snapshot: full replace; bar with the time
\* of the last bar: incremental update; any other bar: incremental append),
\* and the series, the moving average and the graph are all up to date at
\* the end of that step.
C14_OneInstructionPerEvent ==
    [][/\ \A s \in SnapshotInputs : init_candles(s) =>
            /\ InstructionKind(calls') = "full-replace"
            /\ HoldsVerbatim(dataRef', s)
            /\ EffectsComplete
       /\ \A c \in CandleInputs : new_candle(c) =>
            /\ InstructionKind(calls') =
                  IF Len(dataRef.x) > 0 /\ c.time = dataRef.x[Len(dataRef.x)]
                  THEN "incremental-update" ELSE "incremental-append"
            /\ BarIs(dataRef', Len(dataRef'.x), c)
            /\ EffectsComplete]_vars

\* a snapshot, then bars appended and the last one overwritten with new values
C14_Witness ==
    /\ last.ev = "new_candle"
    /\ last.live
    /\ last.n = 3
    /\ ~last.same
    /\ InstructionKind(calls) = "incremental-update"

----------------------------------------------------------------------------
(* Frame properties of a bar event.                                        *)

\* the bar at 1-based index i is the same before and after the step
BarUnchanged(i) ==
    /\ dataRef'.x[i] = dataRef.x[i]
    /\ dataRef'.open[i] = dataRef.open[i]
    /\ dataRef'.high[i] = dataRef.high[i]
    /\ dataRef'.low[i] = dataRef.low[i]
    /\ dataRef'.close[i] = dataRef.close[i]

\* C15: a bar event with the time of the last bar leaves the time sequence
\* and every bar below the last index as they were; any other bar event
\* leaves every bar stored before it as it was.
C15_BarEventFrame ==
    [][\A c \in CandleInputs : new_candle(c) =>
          LET n == Len(dataRef.x)
          IN  IF n > 0 /\ c.time = dataRef.x[n]
              THEN /\ dataRef'.x = dataRef.x
                   /\ \A i \in 1..(n - 1) : BarUnchanged(i)
              ELSE \A i \in 1..n : BarUnchanged(i)]_vars

\* the last of three bars was overwritten with values the first bar does
\* not have
C15_Witness ==
    /\ last.ev = "new_candle"
    /\ last.n = 3
    /\ ~last.same
    /\ calls[1].fn = "update"
    /\ dataRef.close[1] # dataRef.close[3]

\* C16: a bar event that overwrites or appends the bar at 0-based index i
\* leaves the moving average drawn before it unchanged at every index below
\* i - window + 1 and, the window being at least 1, at every index below i.
C16_AverageFrame ==
    [][\A c \in CandleInputs : new_candle(c) =>
          LET i == Len(dataRef'.x) - 1
          IN  /\ \A j \in 0..(i - MA_WINDOW) : plot'[2].y[j + 1] = plot[2].y[j + 1]
              /\ MA_WINDOW >= 1 =>
                    \A j \in 0..(i - 1) : plot'[2].y[j + 1] = plot[2].y[j + 1]]_vars

\* a bar event at index 2 on a series whose average is a number at index 1
C16_Witness ==
    /\ last.ev = "new_candle"
    /\ last.live
    /\ Len(dataRef.x) = 3
    /\ plot[2].y[2].k = "num"
    /\ plot[2].y[3].k = "num"
    /\ plot[2].y[3] # plot[2].y[2]

----------------------------------------------------------------------------
(* The graph against the stored series.  The graph is the store that       *)
(* PlotlyApply describes: react sets both traces, update overwrites the    *)
(* attributes it names, extendTraces appends to the attributes it names.   *)

----------------------------------------------------------------------------
(* Bar events before the first snapshot.                                   *)

\* C18: a bar event handled before any snapshot, the series being empty, is
\* stored as the only bar and drawn by an incremental append; the first
\* snapshot handled afterwards leaves only its own bars in the series and
\* in the graph.
C18_BarBeforeSnapshot ==
    [][/\ \A c \in CandleInputs :
            (phase = "Uninitialized" /\ Len(dataRef.x) = 0 /\ new_candle(c)) =>
                /\ Len(dataRef'.x) = 1
                /\ BarIs(dataRef', 1, c)
                /\ InstructionKind(calls') = "incremental-append"
                /\ plot'[1] = dataRef'
       /\ \A s \in SnapshotInputs :
            (phase = "Uninitialized" /\ Len(dataRef.x) > 0 /\ init_candles(s)) =>
                /\ HoldsVerbatim(dataRef', s)
                /\ plot'[1] = dataRef']_vars

\* the first snapshot was handled on a series that held a bar from an
\* earlier bar event, and holds fewer bars than that series did
C18_Witness ==
    /\ last.ev = "init_candles"
    /\ ~last.live
    /\ last.n = 2
    /\ Len(dataRef.x) = 1
    /\ phase = "Live"

----------------------------------------------------------------------------
(* The displayed signal against the selection.                             *)

\* C19: a signal that is displayed has the selected symbol, up to case, and
\* the selected timeframe.
C19_DisplayedSignalIsCurrent ==
    signal # null =>
        /\ toUpperCase(signal.symbol) = toUpperCase(symbol)
        /\ signal.timeframe = tf

====
